---- MODULE Spec2Model ----
(***************************************************************************)
(* Model of icalfilter: the grouped property classifier (MatchTree), the   *)
(* date-window exclusion filter (RemoveTree), the remove-rule parser and   *)
(* the filtering pass of main_io.                                          *)
(*                                                                         *)
(* Texts are sequences of tokens (strings).  Option<T> is a sequence of    *)
(* length at most one: <<>> is None and <<x>> is Some(x).                  *)
(***************************************************************************)
EXTENDS Integers, Sequences, FiniteSets, TLC

(* ------------------------------ bounds --------------------------------- *)
MaxDay == 3
TicksPerDay == 2
MaxGroup == 1
MaxTreeRules == 3
MaxInclude == 2
MaxProps == 2
MaxCalendars == 2
MaxEvents == 2

Days == 1..MaxDay
Ticks == 0..(TicksPerDay - 1)
GroupIds == (-1)..MaxGroup

None == <<>>
Some(x) == <<x>>

(* --------------------------- generic helpers --------------------------- *)
RECURSIVE SeqsUpTo(_, _)
SeqsUpTo(S, n) ==
  IF n = 0 THEN {<<>>}
  ELSE LET shorter == SeqsUpTo(S, n - 1)
       IN shorter \cup {Append(s, x) : s \in {t \in shorter : Len(t) = n - 1}, x \in S}

\* index of the first element of s equal to tok at or after i, 0 when there is none
RECURSIVE FirstIndex(_, _, _)
FirstIndex(s, tok, i) ==
  IF i > Len(s) THEN 0
  ELSE IF s[i] = tok THEN i
  ELSE FirstIndex(s, tok, i + 1)

(* ------------------------------ event.rs ------------------------------- *)
\* str::splitn(n, sep): at most n pieces, the last one holds the remainder
RECURSIVE SplitN(_, _, _)
SplitN(n, s, sep) ==
  LET i == FirstIndex(s, sep, 1)
  IN IF n <= 1 \/ i = 0 THEN <<s>>
     ELSE <<SubSeq(s, 1, i - 1)>> \o SplitN(n - 1, SubSeq(s, i + 1, Len(s)), sep)

\* the text of a timestamp in DATE_TIME_FORMAT, day d at tick t of the day
DateTimeText(d, t) == <<ToString(d), "T", ToString(t), "Z">>

\* NaiveDateTime::parse_from_str(s, "%Y%m%dT%H%M%SZ"): Some(datetime) or None
ParseDateTime(s) ==
  IF /\ Len(s) = 4
     /\ s[2] = "T"
     /\ s[4] = "Z"
     /\ \E d \in Days : ToString(d) = s[1]
     /\ \E t \in Ticks : ToString(t) = s[3]
  THEN LET d == CHOOSE d \in Days : ToString(d) = s[1]
           t == CHOOSE t \in Ticks : ToString(t) = s[3]
       IN Some(d * TicksPerDay + t)
  ELSE None

\* NaiveDateTime::date()
DateOf(dt) == dt \div TicksPerDay

\* first property of the event with the given name, as an Option
FindProp(event, name) ==
  LET idx == {i \in 1..Len(event) : event[i].name = name}
  IN IF idx = {} THEN None
     ELSE Some(event[CHOOSE i \in idx : \A j \in idx : i <= j])

\* Event::dtstart: Some(datetime) when the first DTSTART property has a value
\* that parses, None for each of the three failures
Dtstart(event) ==
  LET p == FindProp(event, "DTSTART")
  IN IF p = None THEN None
     ELSE IF p[1].value = None THEN None
     ELSE ParseDateTime(p[1].value[1])

(* ------------------------ rules.rs: remove rules ----------------------- *)
\* str::parse::<isize>()
ParseGroupId(s) ==
  IF Len(s) = 1 /\ \E g \in GroupIds : ToString(g) = s[1]
  THEN Some(CHOOSE g \in GroupIds : ToString(g) = s[1])
  ELSE None

\* NaiveDate::parse_from_str(s, "%Y-%m-%d"): Some(day number) or None
ParseDate(s) ==
  IF Len(s) = 1 /\ \E d \in Days : ToString(d) = s[1]
  THEN Some(CHOOSE d \in Days : ToString(d) = s[1])
  ELSE None

RemoveMatchRule(g, sd, start, end) ==
  [group_id |-> g, single_day |-> sd, start_date |-> start, end_date |-> end]

\* from_str with the one-field rule built as a single-day rule without a date
RemoveMatchRule_from_str_one_field_single_day(s) ==
  LET split == SplitN(3, s, ",")
      gid == ParseGroupId(split[1])
  IN IF gid = None THEN None
     ELSE IF Len(split) = 1 THEN Some(RemoveMatchRule(gid[1], TRUE, None, None))
     ELSE IF Len(split) = 2 THEN
       LET sd == ParseDate(split[2])
       IN IF sd = None THEN None
          ELSE Some(RemoveMatchRule(gid[1], TRUE, sd, None))
     ELSE
       LET sd == IF split[2] = <<>> THEN None ELSE ParseDate(split[2])
           ed == IF split[3] = <<>> THEN None ELSE ParseDate(split[3])
       IN IF split[2] # <<>> /\ sd = None THEN None
          ELSE IF split[3] # <<>> /\ ed = None THEN None
          ELSE Some(RemoveMatchRule(gid[1], FALSE, sd, ed))

\* RemoveMatchRule::from_str: Some(rule) or None for a parse error
RemoveMatchRule_from_str(s) ==
  LET split == SplitN(3, s, ",")
      gid == ParseGroupId(split[1])
  IN IF gid = None THEN None
     ELSE IF Len(split) = 1 THEN Some(RemoveMatchRule(gid[1], FALSE, None, None))
     ELSE IF Len(split) = 2 THEN
       LET sd == ParseDate(split[2])
       IN IF sd = None THEN None
          ELSE Some(RemoveMatchRule(gid[1], TRUE, sd, None))
     ELSE
       LET sd == IF split[2] = <<>> THEN None ELSE ParseDate(split[2])
           ed == IF split[3] = <<>> THEN None ELSE ParseDate(split[3])
       IN IF split[2] # <<>> /\ sd = None THEN None
          ELSE IF split[3] # <<>> /\ ed = None THEN None
          ELSE Some(RemoveMatchRule(gid[1], FALSE, sd, ed))

\* is_match with the end of a range excluded
RuleMatchesDate_exclusive_end(rule, date) ==
  IF rule.single_day
  THEN IF rule.start_date = None THEN FALSE ELSE rule.start_date[1] = date
  ELSE /\ rule.start_date # None => rule.start_date[1] <= date
       /\ rule.end_date # None => date < rule.end_date[1]

\* is_match with single_day ignored: a two-field rule is a range open at its end
RuleMatchesDate_single_day_from(rule, date) ==
  /\ rule.start_date # None => rule.start_date[1] <= date
  /\ rule.end_date # None => date <= rule.end_date[1]

\* the decision of RemoveMatchRule::is_match once the date is known
RuleMatchesDate(rule, date) ==
  IF rule.single_day
  THEN IF rule.start_date = None THEN FALSE ELSE rule.start_date[1] = date
  ELSE /\ rule.start_date # None => rule.start_date[1] <= date
       /\ rule.end_date # None => date <= rule.end_date[1]

\* is_match taking an underivable start as "does not match"
RemoveMatchRule_is_match_lenient(rule, event) ==
  LET dt == Dtstart(event)
  IN IF dt = None THEN [panicked |-> FALSE, value |-> FALSE]
     ELSE [panicked |-> FALSE, value |-> RuleMatchesDate(rule, DateOf(dt[1]))]

\* RemoveMatchRule::is_match: panics when the start cannot be derived
RemoveMatchRule_is_match(rule, event) ==
  LET dt == Dtstart(event)
  IN IF dt = None THEN [panicked |-> TRUE, value |-> FALSE]
     ELSE [panicked |-> FALSE, value |-> RuleMatchesDate(rule, DateOf(dt[1]))]

\* HashMap::insert: a later value for a key replaces the earlier one
MapInsert(m, k, v) == [x \in (DOMAIN m) \cup {k} |-> IF x = k THEN v ELSE m[x]]

EmptyMap == [x \in {} |-> {}]

IsSortedByGroup(s) == \A i \in 1..(Len(s) - 1) : s[i].group_id <= s[i + 1].group_id

\* the rules left in command-line order
SortUnstableByKey_unsorted(rules) == {rules}

\* slice::sort_unstable_by_key(|rule| rule.group_id): every ordering of the
\* rules that is sorted by group id (the order of equal keys is unspecified)
SortUnstableByKey(rules) ==
  LET n == Len(rules)
      perms == {p \in [1..n -> 1..n] : \A i, j \in 1..n : i # j => p[i] # p[j]}
  IN {s \in {[i \in 1..n |-> rules[p[i]]] : p \in perms} : IsSortedByGroup(s)}

\* length of the longest prefix of s whose rules share the group id of s[1]
RECURSIVE RunLength(_, _)
RunLength(s, i) ==
  IF i < Len(s) /\ s[i + 1].group_id = s[1].group_id THEN RunLength(s, i + 1) ELSE i

\* Itertools::group_by(|rule| rule.group_id): the runs of adjacent equal keys
RECURSIVE GroupBy(_)
GroupBy(s) ==
  IF s = <<>> THEN <<>>
  ELSE LET n == RunLength(s, 1)
       IN <<[key |-> s[1].group_id, rules |-> SubSeq(s, 1, n)]>>
            \o GroupBy(SubSeq(s, n + 1, Len(s)))

\* HashMap::from_iter over the (group_id, rules) pairs, in order
RECURSIVE HashMapFromIter(_, _)
HashMapFromIter(m, pairs) ==
  IF pairs = <<>> THEN m
  ELSE HashMapFromIter(MapInsert(m, pairs[1].key, pairs[1].rules), Tail(pairs))

\* From<Vec<RemoveMatchRule>> for RemoveTree, after the sort
RemoveTree_from(sorted) == HashMapFromIter(EmptyMap, GroupBy(sorted))

\* Iterator::any over the rules of one group, in order, stopping at the first
\* match; a panic of a rule ends the evaluation
RECURSIVE AnyRule(_, _)
AnyRule(rules, event) ==
  IF rules = <<>> THEN [panicked |-> FALSE, value |-> FALSE]
  ELSE LET r == RemoveMatchRule_is_match(rules[1], event)
       IN IF r.panicked \/ r.value THEN r ELSE AnyRule(Tail(rules), event)

\* RemoveTree::is_match: value is the Option<bool>
RemoveTree_is_match(tree, group, event) ==
  IF group \notin DOMAIN tree THEN [panicked |-> FALSE, value |-> None]
  ELSE LET r == AnyRule(tree[group], event)
       IN [panicked |-> r.panicked, value |-> Some(r.value)]

(* ------------------------ rules.rs: match rules ------------------------ *)
MatchRule(g, prop, pattern) == [group_id |-> g, property |-> prop, value |-> pattern]

\* regex::Regex::is_match for a literal pattern: an unanchored search
RegexIsMatch(pattern, text) ==
  \E i \in 0..(Len(text) - Len(pattern)) : SubSeq(text, i + 1, i + Len(pattern)) = pattern

\* add_rule keeping the pattern the group already has for the property
MatchGroup_add_rule_keep_first(group, rule) ==
  IF rule.property \in DOMAIN group THEN group
  ELSE MapInsert(group, rule.property, rule.value)

\* MatchGroup::add_rule
MatchGroup_add_rule(group, rule) == MapInsert(group, rule.property, rule.value)

\* MatchGroup::is_match: each rule looks at the first property of its name
MatchGroup_is_match(group, event) ==
  \A prop \in DOMAIN group :
    LET ep == FindProp(event, prop)
    IN /\ ep # None
       /\ ep[1].value # None
       /\ RegexIsMatch(group[prop], ep[1].value[1])

\* From<Vec<MatchRule>> for MatchTree
RECURSIVE MatchTree_from(_, _)
MatchTree_from(groups, rules) ==
  IF rules = <<>> THEN groups
  ELSE LET rule == rules[1]
           group == IF rule.group_id \in DOMAIN groups THEN groups[rule.group_id] ELSE EmptyMap
       IN MatchTree_from(MapInsert(groups, rule.group_id, MatchGroup_add_rule(group, rule)),
                         Tail(rules))

\* MatchTree::is_match: HashMap iteration order is unspecified, so find may
\* return any of the groups that match; the set of possible Option<isize>
MatchTree_is_match(groups, event) ==
  LET hits == {g \in DOMAIN groups : MatchGroup_is_match(groups[g], event)}
  IN IF hits = {} THEN {None} ELSE {Some(g) : g \in hits}

(* ------------------------------- state --------------------------------- *)
VARIABLES
  include,       \* opts.include: the parsed match rules, in command-line order
  remove_args,   \* the texts of the -R options, in command-line order
  remove,        \* opts.remove: the parsed remove rules
  match_tree,    \* MatchTree.groups
  remove_tree,   \* RemoveTree.rules
  pc,            \* position of the program
  nread,         \* number of calendars the reader has yielded
  calendar,      \* calendar.events as read, the collection being filtered
  ei,            \* number of events of the calendar the retain closure has seen
  retained,      \* the events retain has kept so far
  written,       \* number of calendars written to the output
  last_written,  \* the events of the calendar written last
  event,         \* the event a function is applied to
  group,         \* the group id RemoveTree::is_match is asked about
  result         \* the value the last is_match call returned

vars == <<include, remove_args, remove, match_tree, remove_tree, pc, nread, calendar,
          ei, retained, written, last_written, event, group, result>>

Prop(n, v) == [name |-> n, value |-> v]

(* ------------------------------ main.rs -------------------------------- *)
\* argh::from_env: every -R text goes through RemoveMatchRule::from_str; a
\* text that does not parse ends the program before any event is read
FromEnv ==
  /\ pc = "start"
  /\ LET parsed == [i \in 1..Len(remove_args) |-> RemoveMatchRule_from_str(remove_args[i])]
     IN IF \E i \in 1..Len(remove_args) : parsed[i] = None
        THEN pc' = "usage" /\ UNCHANGED remove
        ELSE /\ pc' = "parsed"
             /\ remove' = [i \in 1..Len(remove_args) |-> parsed[i][1]]
  /\ UNCHANGED <<include, remove_args, match_tree, remove_tree, nread, calendar, ei,
                 retained, written, last_written, event, group, result>>

\* opts.include.into() and opts.remove.into()
BuildTrees ==
  /\ pc = "parsed"
  /\ match_tree' = MatchTree_from(EmptyMap, include)
  /\ \E sorted \in SortUnstableByKey(remove) : remove_tree' = RemoveTree_from(sorted)
  /\ pc' = "ready"
  /\ UNCHANGED <<include, remove_args, remove, nread, calendar, ei, retained, written,
                 last_written, event, group, result>>

\* the closure without the query for the wildcard group
RetainClosure_no_wildcard(id, ev) ==
  IF id = None THEN "drop"
  ELSE LET own == RemoveTree_is_match(remove_tree, id[1], ev)
       IN IF own.panicked THEN "panic"
          ELSE IF own.value = Some(TRUE) THEN "drop"
          ELSE "keep"

\* the closure given to retain: "keep", "drop" or "panic" for the event, id
\* being what MatchTree::is_match returned
RetainClosure(id, ev) ==
  IF id = None THEN "drop"
  ELSE LET own == RemoveTree_is_match(remove_tree, id[1], ev)
       IN IF own.panicked THEN "panic"
          ELSE IF own.value = Some(TRUE) THEN "drop"
          ELSE LET wild == RemoveTree_is_match(remove_tree, -1, ev)
               IN IF wild.panicked THEN "panic"
                  ELSE IF wild.value = Some(TRUE) THEN "drop"
                  ELSE "keep"

\* inputs of the filtering pass
EvA == <<Prop("SUMMARY", Some(<<"a">>)), Prop("DTSTART", Some(DateTimeText(1, 0)))>>
EvB == <<Prop("SUMMARY", Some(<<"a">>)), Prop("DTSTART", Some(DateTimeText(2, 1)))>>
EvC == <<Prop("SUMMARY", Some(<<"b">>)), Prop("DTSTART", Some(<<"bad">>))>>
EvD == <<Prop("SUMMARY", Some(<<"a">>)), Prop("DTSTART", None)>>
EvE == <<Prop("SUMMARY", Some(<<"b">>))>>
EventPool == {EvA, EvB, EvC, EvD, EvE}
Calendars == SeqsUpTo(EventPool, MaxEvents)

IncludeLists ==
  { <<>>,
    <<MatchRule(0, "SUMMARY", <<"a">>)>>,
    <<MatchRule(0, "SUMMARY", <<"a">>), MatchRule(1, "SUMMARY", <<"b">>)>>,
    <<MatchRule(0, "SUMMARY", <<"a">>), MatchRule(1, "SUMMARY", <<"a">>)>> }

RemoveArgLists ==
  { <<>>,
    << <<"0">> >>,
    << <<"-1">> >>,
    << <<"0", ",", "1">> >>,
    << <<"1", ",", "2", ",">> >>,
    << <<"-1", ",", ",", "1">> >>,
    << <<"0", ",", "2">>, <<"-1", ",", "1">> >>,
    << <<"1">>, <<"0", ",", "x">> >> }

\* for calendar in reader: the parser yields the next calendar
ReadCalendar ==
  /\ pc = "ready"
  /\ nread < MaxCalendars
  /\ \E cal \in Calendars : calendar' = cal
  /\ nread' = nread + 1
  /\ ei' = 0
  /\ retained' = <<>>
  /\ pc' = "retain"
  /\ UNCHANGED <<include, remove_args, remove, match_tree, remove_tree, written,
                 last_written, event, group, result>>

\* calendar?: the parser yields an error, main_io returns it
ReadError ==
  /\ pc = "ready"
  /\ nread < MaxCalendars
  /\ pc' = "failed"
  /\ UNCHANGED <<include, remove_args, remove, match_tree, remove_tree, nread, calendar,
                 ei, retained, written, last_written, event, group, result>>

\* the reader is exhausted: Ok(())
EndOfInput ==
  /\ pc = "ready"
  /\ pc' = "done"
  /\ UNCHANGED <<include, remove_args, remove, match_tree, remove_tree, nread, calendar,
                 ei, retained, written, last_written, event, group, result>>

\* the kept event put in front of the events kept before it
VecKeep_front(kept, ev) == <<ev>> \o kept

\* Vec::retain keeps an event: it stays behind the events kept before it
VecKeep(kept, ev) == Append(kept, ev)

\* calendar.events.retain(..): the closure applied to the next event
RetainEvent ==
  /\ pc = "retain"
  /\ ei < Len(calendar)
  /\ LET ev == calendar[ei + 1]
     IN \E id \in MatchTree_is_match(match_tree, ev) :
          LET d == RetainClosure(id, ev)
          IN /\ result' = id
             /\ IF d = "panic"
                THEN pc' = "panicked" /\ UNCHANGED <<ei, retained>>
                ELSE /\ pc' = "retain"
                     /\ ei' = ei + 1
                     /\ retained' = IF d = "keep" THEN VecKeep(retained, ev) ELSE retained
  /\ UNCHANGED <<include, remove_args, remove, match_tree, remove_tree, nread, calendar,
                 written, last_written, event, group>>

\* write!(output, "{}", calendar) once retain has seen every event
WriteCalendar ==
  /\ pc = "retain"
  /\ ei = Len(calendar)
  /\ written' = written + 1
  /\ last_written' = retained
  /\ pc' = "ready"
  /\ UNCHANGED <<include, remove_args, remove, match_tree, remove_tree, nread, calendar,
                 ei, retained, event, group, result>>

\* write!(..)?: the output fails, main_io returns the error
WriteError ==
  /\ pc = "retain"
  /\ ei = Len(calendar)
  /\ pc' = "failed"
  /\ UNCHANGED <<include, remove_args, remove, match_tree, remove_tree, nread, calendar,
                 ei, retained, written, last_written, event, group, result>>

Init ==
  /\ include \in IncludeLists
  /\ remove_args \in RemoveArgLists
  /\ remove = <<>>
  /\ match_tree = EmptyMap
  /\ remove_tree = EmptyMap
  /\ pc = "start"
  /\ nread = 0
  /\ calendar = <<>>
  /\ ei = 0
  /\ retained = <<>>
  /\ written = 0
  /\ last_written = <<>>
  /\ event = <<>>
  /\ group = 0
  /\ result = None

Next ==
  \/ FromEnv
  \/ BuildTrees
  \/ ReadCalendar
  \/ ReadError
  \/ EndOfInput
  \/ RetainEvent
  \/ WriteCalendar
  \/ WriteError

Spec == Init /\ [][Next]_vars

(* ----------------- MatchTree applied to one event ---------------------- *)
MatchRulePool ==
  { MatchRule(0, "SUMMARY", <<"a">>), MatchRule(0, "SUMMARY", <<"b">>),
    MatchRule(1, "SUMMARY", <<"a">>), MatchRule(1, "SUMMARY", <<"b">>),
    MatchRule(0, "LOCATION", <<"a">>) }

PropPool ==
  { Prop("SUMMARY", None), Prop("SUMMARY", Some(<<"a">>)), Prop("SUMMARY", Some(<<"b">>)),
    Prop("SUMMARY", Some(<<"a", "b">>)), Prop("LOCATION", Some(<<"a">>)) }

\* match_tree.is_match(&event)
Classify ==
  /\ pc = "ready"
  /\ \E id \in MatchTree_is_match(match_tree, event) : result' = id
  /\ pc' = "classified"
  /\ UNCHANGED <<include, remove_args, remove, match_tree, remove_tree, nread, calendar,
                 ei, retained, written, last_written, event, group>>

InitMatch ==
  /\ include \in SeqsUpTo(MatchRulePool, MaxInclude)
  /\ remove_args = <<>>
  /\ remove = <<>>
  /\ match_tree = EmptyMap
  /\ remove_tree = EmptyMap
  /\ pc = "start"
  /\ nread = 0
  /\ calendar = <<>>
  /\ ei = 0
  /\ retained = <<>>
  /\ written = 0
  /\ last_written = <<>>
  /\ event \in SeqsUpTo(PropPool, MaxProps)
  /\ group = 0
  /\ result = None

NextMatch == FromEnv \/ BuildTrees \/ Classify

SpecMatch == InitMatch /\ [][NextMatch]_vars

(* ----------------- RemoveTree applied to one event --------------------- *)
OptDays == {None} \cup {Some(d) : d \in Days}
DateField(o) == IF o = None THEN <<>> ELSE <<ToString(o[1])>>
OneField(g) == <<ToString(g)>>
TwoField(g, d) == <<ToString(g), ",", ToString(d)>>
ThreeField(g, lo, hi) == <<ToString(g), ",">> \o DateField(lo) \o <<",">> \o DateField(hi)

RuleTexts ==
  {OneField(g) : g \in GroupIds}
    \cup {TwoField(g, d) : g \in GroupIds, d \in Days}
    \cup {ThreeField(g, lo, hi) : g \in GroupIds, lo \in OptDays, hi \in OptDays}
    \cup { <<"x">>, <<"0", ",">>, <<"0", ",", "x">>, <<"0", ",", "1", ",", "2", ",", "3">> }

TreeRuleTexts == {TwoField(0, 1), ThreeField(0, Some(2), None), TwoField(1, 1), OneField(-1)}

DtstartEvents ==
  { <<Prop("SUMMARY", Some(<<"a">>))>>,
    <<Prop("DTSTART", None)>>,
    <<Prop("DTSTART", Some(<<"bad">>))>>,
    <<Prop("DTSTART", Some(<<"bad">>)), Prop("DTSTART", Some(DateTimeText(1, 0)))>> }
    \cup { <<Prop("DTSTART", Some(DateTimeText(d, t)))>> : d \in Days, t \in Ticks }

\* remove_tree.is_match(group, &event)
QueryRemoveTree ==
  /\ pc = "ready"
  /\ LET r == RemoveTree_is_match(remove_tree, group, event)
     IN /\ pc' = IF r.panicked THEN "panicked" ELSE "queried"
        /\ result' = r.value
  /\ UNCHANGED <<include, remove_args, remove, match_tree, remove_tree, nread, calendar,
                 ei, retained, written, last_written, event, group>>

InitRemove ==
  /\ include = <<>>
  /\ remove_args \in {<<t>> : t \in RuleTexts} \cup SeqsUpTo(TreeRuleTexts, MaxTreeRules)
  /\ remove = <<>>
  /\ match_tree = EmptyMap
  /\ remove_tree = EmptyMap
  /\ pc = "start"
  /\ nread = 0
  /\ calendar = <<>>
  /\ ei = 0
  /\ retained = <<>>
  /\ written = 0
  /\ last_written = <<>>
  /\ event \in DtstartEvents
  /\ group \in GroupIds
  /\ result = None

NextRemove == FromEnv \/ BuildTrees \/ QueryRemoveTree

SpecRemove == InitRemove /\ [][NextRemove]_vars

(* ------------------------------ properties ----------------------------- *)
\* a (property, pattern) pair is satisfied by an event when some property of
\* that name has a value and the value matches the pattern
PairSatisfied(prop, pattern, ev) ==
  \E i \in 1..Len(ev) :
    /\ ev[i].name = prop
    /\ ev[i].value # None
    /\ RegexIsMatch(pattern, ev[i].value[1])

GroupSatisfied(g, ev) ==
  \A prop \in DOMAIN match_tree[g] : PairSatisfied(prop, match_tree[g][prop], ev)

\* C1: MatchTree::is_match returns Some(g) only for a group g of the tree whose
\* every (property, pattern) pair is satisfied by some property of the event,
\* and returns None exactly when no group has its full rule set satisfied.
C1_Classification ==
  pc = "classified" =>
    /\ result # None =>
         /\ result[1] \in DOMAIN match_tree
         /\ GroupSatisfied(result[1], event)
    /\ result = None <=> ~ \E g \in DOMAIN match_tree : GroupSatisfied(g, event)

\* C2: MatchGroup::is_match is true exactly when every (property, pattern)
\* pair of the group is satisfied by some property of the event of that name,
\* also when the event has several properties of the name.
C2_GroupMatchIsExistential ==
  pc = "ready" =>
    \A g \in DOMAIN match_tree :
      MatchGroup_is_match(match_tree[g], event) <=> GroupSatisfied(g, event)

\* index of the last rule of the list for (g, prop), 0 when there is none
LastRuleIndex(rules, g, prop) ==
  LET idx == {i \in 1..Len(rules) : rules[i].group_id = g /\ rules[i].property = prop}
  IN IF idx = {} THEN 0 ELSE CHOOSE i \in idx : \A j \in idx : j <= i

\* the rules that are the last of the list for their (group, property)
RECURSIVE LastRulesOnly(_, _)
LastRulesOnly(rules, i) ==
  IF i > Len(rules) THEN <<>>
  ELSE (IF LastRuleIndex(rules, rules[i].group_id, rules[i].property) = i
        THEN <<rules[i]>> ELSE <<>>) \o LastRulesOnly(rules, i + 1)

\* C8: the tree built from a rule list holds, per group and property name,
\* exactly the pattern of the last rule of the list for that pair; earlier
\* patterns of the pair have no effect on the classification.
C8_LastWriteWins ==
  pc \in {"ready", "classified"} =>
    /\ DOMAIN match_tree = {include[i].group_id : i \in 1..Len(include)}
    /\ \A g \in DOMAIN match_tree :
         /\ DOMAIN match_tree[g] =
              {include[i].property : i \in {j \in 1..Len(include) : include[j].group_id = g}}
         /\ \A prop \in DOMAIN match_tree[g] :
              match_tree[g][prop] = include[LastRuleIndex(include, g, prop)].value
    /\ pc = "classified" =>
         result \in MatchTree_is_match(MatchTree_from(EmptyMap, LastRulesOnly(include, 1)), event)

C8_Witness ==
  /\ pc = "classified"
  /\ Len(include) >= 2
  /\ include[1].group_id = include[2].group_id
  /\ include[1].property = include[2].property
  /\ include[1].value # include[2].value
  /\ result = Some(include[2].group_id)
  /\ ~ PairSatisfied(include[1].property, include[1].value, event)

HasRule(g) == \E i \in 1..Len(remove) : remove[i].group_id = g

\* number of occurrences of r in the sequence s
Count(s, r) == Cardinality({i \in 1..Len(s) : s[i] = r})

\* the event has the single property DTSTART with the text of day d, tick t
StartsOn(ev, d, t) == ev = <<Prop("DTSTART", Some(DateTimeText(d, t)))>>

\* C4: the tree has a list for g exactly when the rule list has a rule of
\* group g; the list of g holds every rule of group g, as often as the rule
\* list does, and no rule of another group; is_match(g, event) is None when
\* there is no rule of group g and otherwise Some(b), b being true exactly
\* when a rule of group g of the list matches the date of the event's start.
C4_RemoveTree ==
  /\ pc \in {"ready", "queried", "panicked"} =>
       \A g \in GroupIds :
         /\ g \in DOMAIN remove_tree <=> HasRule(g)
         /\ g \in DOMAIN remove_tree =>
              /\ \A i \in 1..Len(remove_tree[g]) : remove_tree[g][i].group_id = g
              /\ \A i \in 1..Len(remove) :
                   remove[i].group_id = g =>
                     Count(remove_tree[g], remove[i]) = Count(remove, remove[i])
  /\ pc = "queried" =>
       /\ result = None <=> ~ HasRule(group)
       /\ result # None =>
            \E d \in Days, t \in Ticks :
              /\ FindProp(event, "DTSTART") = Some(Prop("DTSTART", Some(DateTimeText(d, t))))
              /\ result[1] <=>
                   \E i \in 1..Len(remove) :
                     /\ remove[i].group_id = group
                     /\ RuleMatchesDate(remove[i], d)

C4_Witness ==
  /\ pc = "queried"
  /\ Len(remove) = 3
  /\ remove[1].group_id = group
  /\ remove[2].group_id < group
  /\ remove[3].group_id = group
  /\ remove[1] # remove[3]
  /\ result = Some(TRUE)
  /\ \E d \in Days, t \in Ticks :
       /\ StartsOn(event, d, t)
       /\ RuleMatchesDate(remove[1], d)
       /\ ~ RuleMatchesDate(remove[3], d)

\* C5: a three-field rule "g,lo,hi" matches an event exactly when the date d
\* of its DTSTART satisfies lo <= d <= hi, an empty bound being open; the
\* time of day t plays no part.
C5_RangeRule ==
  pc = "queried" =>
    \A lo \in OptDays, hi \in OptDays :
      remove_args = <<ThreeField(group, lo, hi)>> =>
        \A d \in Days, t \in Ticks :
          StartsOn(event, d, t) =>
            result = Some((lo = None \/ lo[1] <= d) /\ (hi = None \/ d <= hi[1]))

C5_Witness ==
  /\ pc = "queried"
  /\ remove_args = <<ThreeField(0, Some(1), Some(2))>>
  /\ group = 0
  /\ StartsOn(event, 2, 1)
  /\ result = Some(TRUE)

\* C7: a two-field rule "g,D" matches an event exactly when the date of its
\* DTSTART is D, whatever the end_date of the rule is.
C7_SingleDayRule ==
  pc = "queried" =>
    \A D \in Days :
      remove_args = <<TwoField(group, D)>> =>
        \A d \in Days, t \in Ticks :
          StartsOn(event, d, t) =>
            /\ result = Some(d = D)
            /\ remove[1].single_day
            /\ \A e \in OptDays :
                 RuleMatchesDate([remove[1] EXCEPT !.end_date = e], d) <=> (d = D)

C7_Witness ==
  /\ pc = "queried"
  /\ remove_args = <<TwoField(0, 2)>>
  /\ group = 0
  /\ StartsOn(event, 3, 0)
  /\ result = Some(FALSE)

\* the retain closure is about to be applied to the event NextEvent
AtEvent == pc = "retain" /\ ei < Len(calendar)
NextEvent == calendar[ei + 1]
\* the event the retain closure was applied to last
LastEvent == calendar[ei]

Dropped == pc' = "retain" /\ ei' = ei + 1 /\ retained' = retained
Kept == pc' = "retain" /\ ei' = ei + 1 /\ retained' = Append(retained, NextEvent)
Aborted == pc' = "panicked" /\ UNCHANGED <<ei, retained, written, last_written>>

\* C3: an event whose DTSTART parses is retained exactly when MatchTree::is_match
\* gives it a group g and neither RemoveTree::is_match(g, event) nor
\* RemoveTree::is_match(-1, event) is Some(true); otherwise it is dropped.
C3_RetainedIff ==
  [][ (AtEvent /\ Dtstart(NextEvent) # None) =>
        /\ result' \in MatchTree_is_match(match_tree, NextEvent)
        /\ Kept \/ Dropped
        /\ Kept <=>
             /\ result' # None
             /\ RemoveTree_is_match(remove_tree, result'[1], NextEvent).value # Some(TRUE)
             /\ RemoveTree_is_match(remove_tree, -1, NextEvent).value # Some(TRUE) ]_vars

C3_Witness ==
  /\ pc = "retain"
  /\ ei = 2
  /\ retained = <<calendar[1]>>
  /\ Dtstart(LastEvent) # None
  /\ result # None
  /\ RemoveTree_is_match(remove_tree, result[1], LastEvent).value = Some(FALSE)
  /\ RemoveTree_is_match(remove_tree, -1, LastEvent).value = Some(TRUE)

\* the -R options hold the one-field rule of group g
HasOneFieldRule(g) == \E i \in 1..Len(remove_args) : remove_args[i] = OneField(g)

\* C6 as stated: with a one-field rule for g, every event classified into g
\* is dropped by the pipeline, whatever its DTSTART property is.
C6_OneFieldDropsAlways ==
  [][ (AtEvent /\ result' # None /\ HasOneFieldRule(result'[1])) => Dropped ]_vars

\* C6 amended: with a one-field rule for g, every event classified into g
\* whose DTSTART can be derived is dropped, whatever its date; when the start
\* cannot be derived the run aborts and the event is not emitted.
C6_OneFieldDropsParsable ==
  [][ (AtEvent /\ result' # None /\ HasOneFieldRule(result'[1])) =>
        IF Dtstart(NextEvent) # None THEN Dropped ELSE Aborted ]_vars

C6_Witness ==
  /\ pc = "retain"
  /\ ei = 2
  /\ result # None
  /\ HasOneFieldRule(result[1])
  /\ Dtstart(calendar[1]) # None
  /\ Dtstart(calendar[2]) # None
  /\ DateOf(Dtstart(calendar[1])[1]) # DateOf(Dtstart(calendar[2])[1])
  /\ MatchTree_is_match(match_tree, calendar[1]) = {result}
  /\ retained = <<>>

\* sub is a subsequence of full
IsSubsequence(sub, full) ==
  \E f \in [1..Len(sub) -> 1..Len(full)] :
    /\ \A i \in 1..Len(sub) : full[f[i]] = sub[i]
    /\ \A i \in 1..(Len(sub) - 1) : f[i] < f[i + 1]

\* C9: the events kept of a collection are a subsequence of the events
\* retain has seen, the collection written is a subsequence of the collection
\* read, and the k-th collection is written after the k-th has been read and
\* filtered to its end and before the next one is read.
C9_OutputIsSubsequence ==
  /\ pc \in {"retain", "panicked"} =>
       /\ IsSubsequence(retained, SubSeq(calendar, 1, ei))
       /\ written = nread - 1
  /\ pc \in {"ready", "done"} =>
       /\ written = nread
       /\ ei = Len(calendar)
       /\ retained = last_written
       /\ IsSubsequence(last_written, calendar)
  /\ pc = "failed" => written \in {nread - 1, nread}

C9_Witness ==
  /\ pc = "ready"
  /\ written = 2
  /\ Len(calendar) = 2
  /\ calendar[1] # calendar[2]
  /\ last_written = calendar

\* C10: for an event whose start cannot be derived, the run aborts exactly
\* when the event is classified into a group g and the rule list has a rule
\* for g or for -1; without such a rule the classified event is kept, and an
\* unclassified event is dropped; nothing happens after the abort.
C10_AbortIffRule ==
  [][ /\ (AtEvent /\ Dtstart(NextEvent) = None) =>
           /\ result' \in MatchTree_is_match(match_tree, NextEvent)
           /\ IF result' = None THEN Dropped
              ELSE IF HasRule(result'[1]) \/ HasRule(-1) THEN Aborted
              ELSE Kept
      /\ pc # "panicked" ]_vars

C10_Witness ==
  /\ pc = "panicked"
  /\ written = nread - 1
  /\ ei < Len(calendar)
  /\ Dtstart(calendar[ei + 1]) = None
  /\ result # None
  /\ ~ HasRule(result[1])
  /\ remove_args = << OneField(-1) >>
====
